---- MODULE Spec2Model ----
(***************************************************************************)
(* Model of the council setup dialog of llm-council:                       *)
(*   ConversationSetup (src/frontend/src/components/ConversationSetup.jsx) *)
(*   ModelConfigPanel  (src/frontend/src/components/CouncilPanel.jsx,      *)
(*                      lines 71-275)                                      *)
(* Positions in sequences are 1-based: position k is the JavaScript index  *)
(* k - 1.  Panel key 0 is the chairman panel, key k >= 1 is the council    *)
(* panel rendered with key={k - 1}.                                        *)
(***************************************************************************)
EXTENDS Integers, Sequences, FiniteSets, TLC

(* ---------- bounds of the model ---------- *)
MaxEvents == 3

(* ---------- optional values: null / undefined is None ---------- *)
None == <<>>
Some(v) == <<v>>

(* ---------- identifier texts ---------- *)
GPT == "openai/gpt-5.1"
GEMINI == "google/gemini-3-pro-preview"
OPUS == "anthropic/claude-opus-4.5"
LLAMA == "meta/llama-4"
GROK == "x-ai/grok-4"
UNKNOWN == "foo/bar"

\* what the user may type into a model input
Texts == {"", " ", LLAMA, GROK, UNKNOWN}

\* String.prototype.trim on the texts above
Trim(s) == IF s = " " THEN "" ELSE s

\* JavaScript truthiness of a string / of a number
TruthyStr(s) == s # ""
\* a truthiness that also takes the negative numbers for falsy
TruthyNum_Positive(n) == n > 0
TruthyNum(n) == n # 0

\* !id || !id.trim()
IsBlank(id) == ~TruthyStr(id) \/ ~TruthyStr(Trim(id))

(* ---------- responses of the Validation Service ---------- *)
Result(valid, error, supports, ptype, levels, range) ==
    [valid |-> valid, error |-> error, supports_reasoning |-> supports,
     reasoning_param_type |-> ptype, effort_levels |-> levels,
     max_tokens_range |-> range]

DefaultRange == [min |-> 1024, max |-> 32000, default |-> 4096]

RespPlain == Result(TRUE, None, FALSE, None, None, None)
RespEffort == Result(TRUE, None, TRUE, Some("effort"), Some(<<"low", "medium", "high">>), None)
RespEffortTwo == Result(TRUE, None, TRUE, Some("effort"), Some(<<"low", "high">>), None)
RespTokens == Result(TRUE, None, TRUE, Some("max_tokens"), None, Some(DefaultRange))
RespInvalid == Result(FALSE, Some("Model not found"), FALSE, None, None, None)
RespUnavailable == Result(FALSE, Some("Model not available"), TRUE, Some("exclude"), None, None)

\* The registry behind the Validation Service: what api.validateModel(id)
\* returns for id when the call does not fail.
Registry(id) ==
    CASE id = GPT -> RespUnavailable
      [] id = GEMINI -> RespEffort
      [] id = OPUS -> RespTokens
      [] id = LLAMA -> RespPlain
      [] id = GROK -> RespEffortTwo
      [] OTHER -> RespInvalid

(* ---------- state ---------- *)
VARIABLES
    councilModels,   \* useState: sequence of slots (or holes)
    chairmanModel,   \* useState: the chairman slot
    councilPanels,   \* local state of the council ModelConfigPanels, by key
    chairmanPanel,   \* local state of the chairman ModelConfigPanel
    calls,           \* api.validateModel calls awaiting their outcome
    focus,           \* key of the model input holding the focus, or NoFocus
    config,          \* the configuration handed to onStart, or None
    crashed,         \* a render threw: the component tree is gone
    nEvents,         \* user input events so far
    recon            \* the Reasoning Reconciler applied on its own: input and output

vars == <<councilModels, chairmanModel, councilPanels, chairmanPanel, calls,
          focus, config, crashed, nEvents, recon>>

NoFocus == -1
ChairmanKey == 0

(* ---------- slots ---------- *)
\* an element of councilModels: an object, a hole of a sparse array, or undefined
\* uid is the identity of the slot (not a field of the source object)
Slot(id, rc, vr, uid) ==
    [elem |-> "object", id |-> id, reasoningConfig |-> rc,
     validationResult |-> vr, uid |-> uid]
Hole == [elem |-> "hole", id |-> "", reasoningConfig |-> None,
         validationResult |-> None, uid |-> -1]
Undefined == [elem |-> "undefined", id |-> "", reasoningConfig |-> None,
              validationResult |-> None, uid |-> -1]

IsObject(s) == s.elem = "object"

ReasoningConfig(enabled, effort, maxTokens) ==
    [enabled |-> enabled, effort |-> effort, max_tokens |-> maxTokens]

(* ---------- ModelConfigPanel local state ---------- *)
ClearedValidation(p) ==
    [p EXCEPT !.isValidating = FALSE, !.isValid = None, !.error = None,
              !.supportsReasoning = FALSE, !.effortLevels = <<>>,
              !.reasoningParamType = None, !.maxTokensRange = None]

NewPanel(modelId) ==
    [exists |-> TRUE, inputValue |-> modelId, isValidating |-> FALSE,
     isValid |-> None, error |-> None, supportsReasoning |-> FALSE,
     effortLevels |-> <<>>, reasoningParamType |-> None, maxTokensRange |-> None]

NoPanel == [NewPanel("") EXCEPT !.exists = FALSE]

\* buildReasoningOverride has not been applied on its own
ReconIdle == [pc |-> "idle", model |-> None, override |-> None]

\* the state of ConversationSetup and its panels after the first render
InitSetup ==
    /\ councilModels =
         << Slot(GPT, Some(ReasoningConfig(TRUE, Some("medium"), None)), None, 1),
            Slot(GEMINI, Some(ReasoningConfig(TRUE, Some("high"), None)), None, 2),
            Slot(OPUS, Some(ReasoningConfig(TRUE, None, None)), None, 3) >>
    /\ chairmanModel =
         Slot(GEMINI, Some(ReasoningConfig(TRUE, Some("high"), None)), None, 0)
    /\ councilPanels = << NewPanel(GPT), NewPanel(GEMINI), NewPanel(OPUS) >>
    /\ chairmanPanel = NewPanel(GEMINI)
    /\ calls = {}
    /\ focus = NoFocus
    /\ config = None
    /\ crashed = FALSE
    /\ nEvents = 0

Init == InitSetup /\ recon = ReconIdle


(* ---------- panels and the slots they render ---------- *)
PanelExists(p) ==
    \/ p = ChairmanKey
    \/ p \in 1..Len(councilPanels) /\ councilPanels[p].exists

PanelKeys == {p \in 0..Len(councilPanels) : PanelExists(p)}

PanelAt(p) == IF p = ChairmanKey THEN chairmanPanel ELSE councilPanels[p]

\* the slot whose id the panel receives as its modelId prop
ModelAt(p) == IF p = ChairmanKey THEN chairmanModel ELSE councilModels[p]

\* panels p with its local state replaced by np, as a pair <<chairman, council>>
PanelsWith(p, np) ==
    << IF p = ChairmanKey THEN np ELSE chairmanPanel,
       IF p = ChairmanKey THEN councilPanels
       ELSE [councilPanels EXCEPT ![p] = np] >>

\* the identity given to a slot object that comes into being
FreshUid ==
    LET used == {councilModels[k].uid : k \in 1..Len(councilModels)}
                \cup {chairmanModel.uid} \cup {c.issuer : c \in calls}
    IN  CHOOSE n \in 0..Cardinality(used) :
            n \notin used /\ \A m \in 0..(n - 1) : m \in used

(* ---------- ConversationSetup: state updaters ---------- *)
\* [...prev]: the array iterator yields undefined for the holes of a sparse array
Spread(prev) ==
    [k \in 1..Len(prev) |-> IF prev[k].elem = "hole" THEN Undefined ELSE prev[k]]

Holes(n) == [i \in 1..n |-> Hole]

\* an update that stores the result and keeps the identifier the slot had
handleCouncilModelChange_ResultOnly(k, newId, validationResult) ==
    LET updated == Spread(councilModels)
        old == IF k <= Len(updated) THEN updated[k] ELSE Undefined
        obj == IF IsObject(old)
               THEN [old EXCEPT !.validationResult = validationResult]
               ELSE Slot(newId, None, validationResult, FreshUid)
    IN  IF k <= Len(updated)
        THEN [updated EXCEPT ![k] = obj]
        ELSE updated \o Holes(k - Len(updated) - 1) \o <<obj>>

\* updated[index] = { ...updated[index], id: newId, validationResult }
handleCouncilModelChange(k, newId, validationResult) ==
    LET updated == Spread(councilModels)
        old == IF k <= Len(updated) THEN updated[k] ELSE Undefined
        obj == IF IsObject(old)
               THEN [old EXCEPT !.id = newId, !.validationResult = validationResult]
               ELSE Slot(newId, None, validationResult, FreshUid)
    IN  IF k <= Len(updated)
        THEN [updated EXCEPT ![k] = obj]
        ELSE updated \o Holes(k - Len(updated) - 1) \o <<obj>>

\* setChairmanModel(prev => ({ ...prev, id: newId, validationResult }))
handleChairmanChange(newId, validationResult) ==
    [chairmanModel EXCEPT !.id = newId, !.validationResult = validationResult]

(* ---------- rendering ---------- *)
\* rendering councilModels.map(model => <ModelConfigPanel modelId={model.id}/>)
\* throws on an undefined element
RenderThrows(cm) == \E k \in 1..Len(cm) : cm[k].elem = "undefined"

\* The panels after a render of the council list cm, from the panels bp:
\* a panel keeps its local state as long as its key is rendered, a new key
\* mounts a new panel, and the effect on [modelId] resets inputValue.
RenderCouncil(cm, bp) ==
    [k \in 1..Len(cm) |->
        IF ~IsObject(cm[k]) THEN NoPanel
        ELSE IF k <= Len(bp) /\ bp[k].exists
             THEN [bp[k] EXCEPT !.inputValue =
                       IF cm[k].id # councilModels[k].id THEN cm[k].id ELSE @]
             ELSE NewPanel(cm[k].id)]

\* calls whose panel is no longer rendered belong to an unmounted component
Unmount(cs, newPanels) ==
    {[c EXCEPT !.mounted =
          c.mounted /\ (c.panel = ChairmanKey
                        \/ (c.panel <= Len(newPanels) /\ newPanels[c.panel].exists))]
     : c \in cs}

\* setCouncilModels(cm) from the panels bp, with the calls cs outstanding
CommitCouncil(cm, bp, cs) ==
    /\ councilModels' = cm
    /\ IF RenderThrows(cm)
       THEN /\ crashed' = TRUE
            /\ councilPanels' = bp
            /\ calls' = cs
            /\ focus' = NoFocus
       ELSE /\ crashed' = FALSE
            /\ councilPanels' = RenderCouncil(cm, bp)
            /\ calls' = Unmount(cs, RenderCouncil(cm, bp))
            /\ focus' = IF focus >= 1 /\ ~(focus <= Len(cm) /\ IsObject(cm[focus]))
                        THEN NoFocus ELSE focus

Live == ~crashed /\ config = None

\* a user input event, within the bound of the model
UserEvent == nEvents < MaxEvents /\ nEvents' = nEvents + 1

(* ---------- ModelConfigPanel: the model input ---------- *)
\* The model input of panel p can receive a key event: it holds the focus, or
\* no model input does and the user puts the cursor into it.
CanType(p) == PanelExists(p) /\ focus \in {p, NoFocus}

\* the order in which the outstanding calls were issued
NextSeq ==
    IF calls = {} THEN 1
    ELSE 1 + (CHOOSE n \in {c.seq : c \in calls} : \A c \in calls : c.seq <= n)

\* the call api.validateModel(id) issued by panel p
NewCall(p, id) ==
    [seq |-> NextSeq, panel |-> p, id |-> id, mounted |-> TRUE,
     issuer |-> ModelAt(p).uid,
     overlapped |-> \E c \in calls : c.panel = p /\ c.mounted]

\* an input that validates on every keystroke
handleInputChange_Validates(p, text) ==
    /\ Live
    /\ UserEvent
    /\ CanType(p)
    /\ text # PanelAt(p).inputValue
    /\ chairmanPanel' = PanelsWith(p, [PanelAt(p) EXCEPT !.inputValue = text])[1]
    /\ councilPanels' = PanelsWith(p, [PanelAt(p) EXCEPT !.inputValue = text])[2]
    /\ calls' = calls \cup {NewCall(p, text)}
    /\ focus' = p
    /\ UNCHANGED <<councilModels, chairmanModel, config, recon, crashed>>

\* onChange={(e) => setInputValue(e.target.value)}
handleInputChange(p, text) ==
    /\ Live
    /\ UserEvent
    /\ CanType(p)
    /\ text # PanelAt(p).inputValue
    /\ chairmanPanel' = PanelsWith(p, [PanelAt(p) EXCEPT !.inputValue = text])[1]
    /\ councilPanels' = PanelsWith(p, [PanelAt(p) EXCEPT !.inputValue = text])[2]
    /\ focus' = p
    /\ UNCHANGED <<councilModels, chairmanModel, calls, config, recon, crashed>>

\* a validateModel that sends blank text to the service as well
validateModel_NoBlankGuard(p, id) ==
    LET np == [PanelAt(p) EXCEPT !.isValidating = TRUE, !.error = None]
    IN  /\ chairmanPanel' = PanelsWith(p, np)[1]
        /\ councilPanels' = PanelsWith(p, np)[2]
        /\ calls' = {[c EXCEPT !.overlapped = @ \/ (c.panel = p /\ c.mounted)]
                     : c \in calls} \cup {NewCall(p, id)}

\* validateModel(id) up to its await
validateModel(p, id) ==
    IF IsBlank(id)
    THEN /\ chairmanPanel' = PanelsWith(p, ClearedValidation(PanelAt(p)))[1]
         /\ councilPanels' = PanelsWith(p, ClearedValidation(PanelAt(p)))[2]
         /\ UNCHANGED calls
    ELSE LET np == [PanelAt(p) EXCEPT !.isValidating = TRUE, !.error = None]
         IN  /\ chairmanPanel' = PanelsWith(p, np)[1]
             /\ councilPanels' = PanelsWith(p, np)[2]
             /\ calls' = {[c EXCEPT !.overlapped = @ \/ (c.panel = p /\ c.mounted)]
                          : c \in calls} \cup {NewCall(p, id)}

handleBlur(p) ==
    /\ Live
    /\ focus = p
    /\ focus' = NoFocus
    /\ IF PanelAt(p).inputValue # ModelAt(p).id
       THEN validateModel(p, PanelAt(p).inputValue)
       ELSE UNCHANGED <<chairmanPanel, councilPanels, calls>>
    /\ UNCHANGED <<councilModels, chairmanModel, config, recon, crashed, nEvents>>

\* e.key === 'Enter'
handleKeyDown(p) ==
    /\ Live
    /\ UserEvent
    /\ CanType(p)
    /\ validateModel(p, PanelAt(p).inputValue)
    /\ focus' = p
    /\ UNCHANGED <<councilModels, chairmanModel, config, recon, crashed>>

(* ---------- ModelConfigPanel: the outcome of a validation call ---------- *)
\* validationState after api.validateModel returned result
Validated(p, result) ==
    [p EXCEPT !.isValidating = FALSE,
              !.isValid = Some(result.valid),
              !.error = result.error,
              !.supportsReasoning = result.supports_reasoning,
              !.effortLevels = IF result.effort_levels = None THEN <<>>
                               ELSE result.effort_levels[1],
              !.reasoningParamType = result.reasoning_param_type,
              !.maxTokensRange = result.max_tokens_range]

FailedMessage == "Failed to validate model"

\* validationState set in the catch block
Failed(p) ==
    [ClearedValidation(p) EXCEPT !.isValid = Some(FALSE),
                                 !.error = Some(FailedMessage)]

\* api.validateModel(c.id) returns result: setValidationState, then
\* onModelChange(id, result)
ValidateReturns(c, result) ==
    /\ Live
    /\ c \in calls
    /\ LET np == IF c.mounted THEN Validated(PanelAt(c.panel), result)
                 ELSE NoPanel
       IN  IF c.panel = ChairmanKey
           THEN /\ chairmanModel' = handleChairmanChange(c.id, Some(result))
                /\ chairmanPanel' =
                     [np EXCEPT !.inputValue =
                          IF c.id # chairmanModel.id THEN c.id ELSE @]
                /\ calls' = calls \ {c}
                /\ UNCHANGED <<councilModels, councilPanels, crashed, focus>>
           ELSE /\ CommitCouncil(
                     handleCouncilModelChange(c.panel, c.id, Some(result)),
                     IF c.mounted THEN PanelsWith(c.panel, np)[2] ELSE councilPanels,
                     calls \ {c})
                /\ UNCHANGED <<chairmanModel, chairmanPanel>>
    /\ UNCHANGED <<config, recon, nEvents>>

\* a catch block that issues the call again
ValidateThrows_Retries(c) ==
    /\ Live
    /\ c \in calls
    /\ calls' = (calls \ {c}) \cup {[c EXCEPT !.seq = NextSeq]}
    /\ UNCHANGED <<councilModels, chairmanModel, chairmanPanel, councilPanels,
                   focus, config, recon, crashed, nEvents>>

\* api.validateModel(c.id) throws: the catch block sets validationState only
ValidateThrows(c) ==
    /\ Live
    /\ c \in calls
    /\ calls' = calls \ {c}
    /\ IF c.mounted
       THEN /\ chairmanPanel' = PanelsWith(c.panel, Failed(PanelAt(c.panel)))[1]
            /\ councilPanels' = PanelsWith(c.panel, Failed(PanelAt(c.panel)))[2]
       ELSE UNCHANGED <<chairmanPanel, councilPanels>>
    /\ UNCHANGED <<councilModels, chairmanModel, focus, config, recon, crashed, nEvents>>

(* ---------- ConversationSetup: the council list ---------- *)
DefaultReasoningConfig == ReasoningConfig(TRUE, Some("medium"), None)

\* prev.filter((_, i) => i !== index): filter skips the holes of a sparse array
RECURSIVE FilterFrom(_, _, _)
FilterFrom(prev, i, k) ==
    IF i > Len(prev) THEN <<>>
    ELSE (IF i # k /\ prev[i].elem # "hole" THEN <<prev[i]>> ELSE <<>>)
         \o FilterFrom(prev, i + 1, k)

\* a click on a button or on a reasoning control: the focused model input, if
\* any, has lost the focus before the click handler runs
CanClick == focus = NoFocus

\* an add button that puts the new slot in front
handleAddModel_Prepends ==
    /\ Live
    /\ UserEvent
    /\ CanClick
    /\ CommitCouncil(
         <<Slot("", Some(DefaultReasoningConfig), None, FreshUid)>> \o Spread(councilModels),
         councilPanels, calls)
    /\ UNCHANGED <<chairmanModel, chairmanPanel, config, recon>>

\* onClick={handleAddModel}
handleAddModel ==
    /\ Live
    /\ UserEvent
    /\ CanClick
    /\ CommitCouncil(
         Spread(councilModels) \o <<Slot("", Some(DefaultReasoningConfig), None, FreshUid)>>,
         councilPanels, calls)
    /\ UNCHANGED <<chairmanModel, chairmanPanel, config, recon>>

\* a remove button that is always offered
showRemove_Always == TRUE

\* showRemove={councilModels.length > 1}
showRemove == Len(councilModels) > 1

\* onRemove={() => handleRemoveModel(index)} of council panel k
handleRemoveModel(k) ==
    /\ Live
    /\ UserEvent
    /\ CanClick
    /\ k >= 1 /\ PanelExists(k)
    /\ showRemove
    /\ CommitCouncil(FilterFrom(councilModels, 1, k), councilPanels, calls)
    /\ UNCHANGED <<chairmanModel, chairmanPanel, config, recon>>

(* ---------- reasoning configuration ---------- *)
\* the reasoningConfig prop of panel p (None: undefined)
ConfigAt(p) == ModelAt(p).reasoningConfig

\* { ...reasoningConfig, <field>: <value> }: spreading undefined gives {}
SpreadConfig(rc) == IF rc = None THEN [enabled |-> None, effort |-> None, max_tokens |-> None]
                    ELSE [enabled |-> Some(rc[1].enabled), effort |-> rc[1].effort,
                          max_tokens |-> rc[1].max_tokens]

\* reasoningConfig?.enabled as a condition
EnabledAt(p) == ConfigAt(p) # None /\ ConfigAt(p)[1].enabled

\* {isValid && supportsReasoning && ...}: the reasoning controls are rendered
ShowsReasoning(p) ==
    /\ PanelExists(p)
    /\ PanelAt(p).isValid = Some(TRUE)
    /\ PanelAt(p).supportsReasoning

\* an update of the reasoning config that drops the validation result
onReasoningChange_ClearsValidation(p, rc) ==
    IF p = ChairmanKey
    THEN /\ chairmanModel' = [chairmanModel EXCEPT !.reasoningConfig = Some(rc),
                                                    !.validationResult = None]
         /\ UNCHANGED <<councilModels, councilPanels, chairmanPanel, calls, crashed, focus>>
    ELSE /\ CommitCouncil(
              [Spread(councilModels) EXCEPT ![p] = [@ EXCEPT !.reasoningConfig = Some(rc),
                                                             !.validationResult = None]],
              councilPanels, calls)
         /\ UNCHANGED <<chairmanModel, chairmanPanel>>

\* handleCouncilReasoningChange(index, config) / handleChairmanReasoningChange(config)
onReasoningChange(p, rc) ==
    IF p = ChairmanKey
    THEN /\ chairmanModel' = [chairmanModel EXCEPT !.reasoningConfig = Some(rc)]
         /\ UNCHANGED <<councilModels, councilPanels, chairmanPanel, calls, crashed, focus>>
    ELSE /\ CommitCouncil(
              [Spread(councilModels) EXCEPT ![p] = [@ EXCEPT !.reasoningConfig = Some(rc)]],
              councilPanels, calls)
         /\ UNCHANGED <<chairmanModel, chairmanPanel>>

\* the checkbox shows reasoningConfig?.enabled ?? true; a click inverts it
handleReasoningToggle(p) ==
    /\ Live
    /\ UserEvent
    /\ CanClick
    /\ ShowsReasoning(p)
    /\ LET shown == IF ConfigAt(p) = None THEN TRUE ELSE ConfigAt(p)[1].enabled
           old == SpreadConfig(ConfigAt(p))
       IN  onReasoningChange(p, ReasoningConfig(~shown, old.effort, old.max_tokens))
    /\ UNCHANGED <<config, recon>>

\* the effort <select> offers the panel's effortLevels
handleEffortChange(p, effort) ==
    /\ Live
    /\ UserEvent
    /\ CanClick
    /\ ShowsReasoning(p)
    /\ EnabledAt(p)
    /\ PanelAt(p).reasoningParamType = Some("effort")
    /\ Len(PanelAt(p).effortLevels) > 0
    /\ \E i \in 1..Len(PanelAt(p).effortLevels) : PanelAt(p).effortLevels[i] = effort
    /\ ConfigAt(p)[1].effort # Some(effort)
    /\ onReasoningChange(p, [ConfigAt(p)[1] EXCEPT !.effort = Some(effort)])
    /\ UNCHANGED <<config, recon>>

\* what the user may type into the token budget input
TokenTexts == {"", "0", "2048"}

\* parseInt(value, 10) on the texts above; None is NaN
ParseInt(value) ==
    CASE value = "0" -> Some(0)
      [] value = "2048" -> Some(2048)
      [] OTHER -> None

handleMaxTokensChange(p, value) ==
    /\ Live
    /\ UserEvent
    /\ CanClick
    /\ ShowsReasoning(p)
    /\ EnabledAt(p)
    /\ PanelAt(p).reasoningParamType = Some("max_tokens")
    /\ PanelAt(p).maxTokensRange # None
    /\ IF ParseInt(value) # None
       THEN onReasoningChange(p, [ConfigAt(p)[1] EXCEPT !.max_tokens = ParseInt(value)])
       ELSE UNCHANGED <<councilModels, chairmanModel, councilPanels, chairmanPanel,
                        calls, crashed, focus>>
    /\ UNCHANGED <<config, recon>>

(* ---------- ConversationSetup: start ---------- *)
\* m.validationResult?.valid as a condition
IsValid(m) == m.validationResult # None /\ m.validationResult[1].valid

\* a gate that forgets the chairman
canStart_CouncilOnly ==
    \E k \in 1..Len(councilModels) :
        councilModels[k].elem # "hole" /\ IsValid(councilModels[k])

\* a gate that forgets the council
canStart_ChairmanOnly == IsValid(chairmanModel)

\* councilModels.some(m => m.validationResult?.valid) && chairmanModel.validationResult?.valid
\* (some skips the holes of a sparse array)
canStart ==
    /\ \E k \in 1..Len(councilModels) :
          councilModels[k].elem # "hole" /\ IsValid(councilModels[k])
    /\ IsValid(chairmanModel)

FallbackEffort == "high"
FallbackTokens == 4096

\* a guard that forgets supports_reasoning
ReasoningOff_EnabledOnly(model) ==
    ~(model.reasoningConfig # None /\ model.reasoningConfig[1].enabled)

\* !model.validationResult?.supports_reasoning || !model.reasoningConfig?.enabled
ReasoningOff(model) ==
    \/ ~(model.validationResult # None /\ model.validationResult[1].supports_reasoning)
    \/ ~(model.reasoningConfig # None /\ model.reasoningConfig[1].enabled)

\* a default that takes the first effort level and falls back to "medium"
defaultEffort_First(result) ==
    IF result.effort_levels = None \/ result.effort_levels = Some(<<>>)
    THEN "medium"
    ELSE result.effort_levels[1][1]

\* effort_levels?.[Math.floor(effort_levels.length / 2)] || 'high'
defaultEffort(result) ==
    LET levels == result.effort_levels
        middle == IF levels = None \/ (Len(levels[1]) \div 2) + 1 > Len(levels[1])
                  THEN None
                  ELSE Some(levels[1][(Len(levels[1]) \div 2) + 1])
    IN  IF middle # None /\ TruthyStr(middle[1]) THEN middle[1] ELSE FallbackEffort

\* max_tokens_range?.default || 4096
defaultTokens(result) ==
    LET range == result.max_tokens_range
    IN  IF range # None /\ TruthyNum(range[1].default)
        THEN range[1].default ELSE FallbackTokens

\* a reconciler that sends exclude: true for an enabled exclude-type slot
buildReasoningOverride_ExcludeOn(model) ==
    IF ReasoningOff(model) THEN None
    ELSE IF model.validationResult[1].reasoning_param_type = Some("exclude")
         THEN Some([exclude |-> TRUE])
         ELSE None

\* buildReasoningOverride(model): None is null
buildReasoningOverride(model) ==
    IF ReasoningOff(model) THEN None
    ELSE LET result == model.validationResult[1]
             rc == model.reasoningConfig[1]
             paramType == result.reasoning_param_type
         IN  IF paramType = Some("effort")
             THEN Some([effort |->
                    IF rc.effort # None /\ TruthyStr(rc.effort[1])
                    THEN rc.effort[1] ELSE defaultEffort(result)])
             ELSE IF paramType = Some("max_tokens")
             THEN Some([max_tokens |->
                    IF rc.max_tokens # None /\ TruthyNum(rc.max_tokens[1])
                    THEN rc.max_tokens[1] ELSE defaultTokens(result)])
             ELSE IF paramType = Some("exclude")
             THEN Some([exclude |-> FALSE])
             ELSE None

\* an assignment that keeps the entry an identifier already has
Put_KeepFirst(overrides, id, override) ==
    [x \in DOMAIN overrides \cup {id} |->
        IF x \in DOMAIN overrides THEN overrides[x] ELSE override]

\* overrides[id] = override
Put(overrides, id, override) ==
    [x \in DOMAIN overrides \cup {id} |-> IF x = id THEN override ELSE overrides[x]]

\* one slot's contribution to model_overrides
AddOverride(overrides, model) ==
    IF buildReasoningOverride(model) # None
    THEN Put(overrides, model.id, buildReasoningOverride(model)[1])
    ELSE overrides

\* councilModels.forEach(...) from position i on (forEach skips holes)
RECURSIVE CouncilOverrides(_, _)
CouncilOverrides(i, overrides) ==
    IF i > Len(councilModels) THEN overrides
    ELSE CouncilOverrides(i + 1,
            IF councilModels[i].elem = "hole" THEN overrides
            ELSE AddOverride(overrides, councilModels[i]))

\* a list of the council identifiers that keeps the empty ones
RECURSIVE CouncilIds_KeepEmpty(_)
CouncilIds_KeepEmpty(i) ==
    IF i > Len(councilModels) THEN <<>>
    ELSE (IF councilModels[i].elem # "hole"
          THEN <<councilModels[i].id>> ELSE <<>>) \o CouncilIds_KeepEmpty(i + 1)

\* a list of the council identifiers that keeps the valid slots only
RECURSIVE CouncilIds_ValidOnly(_)
CouncilIds_ValidOnly(i) ==
    IF i > Len(councilModels) THEN <<>>
    ELSE (IF councilModels[i].elem # "hole" /\ IsValid(councilModels[i])
          THEN <<councilModels[i].id>> ELSE <<>>) \o CouncilIds_ValidOnly(i + 1)

\* councilModels.map(m => m.id).filter(id => id) from position i on
RECURSIVE CouncilIds(_)
CouncilIds(i) ==
    IF i > Len(councilModels) THEN <<>>
    ELSE (IF councilModels[i].elem # "hole" /\ TruthyStr(councilModels[i].id)
          THEN <<councilModels[i].id>> ELSE <<>>) \o CouncilIds(i + 1)

\* the config object of handleStart (the stage1 / stage2 toggles are left out)
BuildConfig ==
    [council_models |-> CouncilIds(1),
     chairman_model |-> chairmanModel.id,
     reasoning |-> [model_overrides |->
                      AddOverride(CouncilOverrides(1, <<>>), chairmanModel)]]

\* a start button that is never disabled
handleStart_AlwaysEnabled ==
    /\ Live
    /\ CanClick
    /\ config' = Some(BuildConfig)
    /\ UNCHANGED <<councilModels, chairmanModel, councilPanels, chairmanPanel,
                   calls, focus, crashed, nEvents, recon>>

\* a start that strips the chairman's reasoning config once it has read it
handleStart_ConsumesConfig ==
    /\ Live
    /\ CanClick
    /\ canStart
    /\ config' = Some(BuildConfig)
    /\ chairmanModel' = [chairmanModel EXCEPT !.reasoningConfig = None]
    /\ UNCHANGED <<councilModels, councilPanels, chairmanPanel,
                   calls, focus, crashed, nEvents, recon>>

\* the start button: disabled={!canStart} onClick={handleStart}
handleStart ==
    /\ Live
    /\ CanClick
    /\ canStart
    /\ config' = Some(BuildConfig)
    /\ UNCHANGED <<councilModels, chairmanModel, councilPanels, chairmanPanel,
                   calls, focus, crashed, nEvents, recon>>

Next ==
    \/ \E p \in PanelKeys, text \in Texts : handleInputChange(p, text)
    \/ \E p \in PanelKeys : handleBlur(p)
    \/ \E p \in PanelKeys : handleKeyDown(p)
    \/ \E c \in calls : ValidateReturns(c, Registry(c.id))
    \/ \E c \in calls : ValidateThrows(c)
    \/ handleAddModel
    \/ \E k \in PanelKeys : handleRemoveModel(k)
    \/ \E p \in PanelKeys : handleReasoningToggle(p)
    \/ \E p \in PanelKeys, effort \in {"low", "medium", "high"} : handleEffortChange(p, effort)
    \/ \E p \in PanelKeys, value \in TokenTexts : handleMaxTokensChange(p, value)
    \/ handleStart

Spec == Init /\ [][Next]_vars

(* ---------- the Reasoning Reconciler on its own ---------- *)
ReconLevels == {None, Some(<<>>), Some(<<"high">>), Some(<<"low", "high">>),
                Some(<<"low", "medium", "high">>),
                Some(<<"minimal", "low", "medium", "high">>)}

ReconResults ==
    {Result(valid, None, supports, ptype, levels, range) :
        valid \in BOOLEAN, supports \in BOOLEAN,
        ptype \in {None, Some("none"), Some("effort"), Some("max_tokens"), Some("exclude")},
        levels \in ReconLevels,
        range \in {None, Some(DefaultRange), Some([min |-> 0, max |-> 8192, default |-> 0])}}

ReconConfigs ==
    {ReasoningConfig(enabled, effort, maxTokens) :
        enabled \in BOOLEAN,
        effort \in {None, Some("low"), Some("medium"), Some("high")},
        maxTokens \in {None, Some(0), Some(2048), Some(-1)}}

\* the slots buildReasoningOverride may be given
ReconModels ==
    {Slot(GPT, rc, vr, 0) :
        rc \in {None} \cup {Some(c) : c \in ReconConfigs},
        vr \in {None} \cup {Some(r) : r \in ReconResults}}

InitRecon ==
    /\ InitSetup
    /\ recon \in {[pc |-> "call", model |-> Some(m), override |-> None] : m \in ReconModels}

\* const override = buildReasoningOverride(model)
Reconcile ==
    /\ recon.pc = "call"
    /\ recon' = [recon EXCEPT !.pc = "done",
                              !.override = buildReasoningOverride(recon.model[1])]
    /\ UNCHANGED <<councilModels, chairmanModel, councilPanels, chairmanPanel,
                   calls, focus, config, crashed, nEvents>>

NextRecon == Reconcile

SpecRecon == InitRecon /\ [][NextRecon]_vars

\* the panels mirror the council list
TypeOK ==
    /\ Len(councilPanels) = Len(councilModels) \/ crashed
    /\ ~crashed => \A k \in 1..Len(councilModels) :
          /\ councilModels[k].elem \in {"object", "hole"}
          /\ councilPanels[k].exists <=> IsObject(councilModels[k])
    /\ \A c \in calls : c.mounted => PanelExists(c.panel)
    /\ focus = NoFocus \/ PanelExists(focus)

(* ====================== the claims ====================== *)

\* the validation status of a slot as ConversationSetup holds it
SlotStatus(m) ==
    IF m.validationResult = None THEN "Unvalidated"
    ELSE IF m.validationResult[1].valid THEN "Valid" ELSE "Invalid"

\* the council slots (positions) that are objects
CouncilSlots == {k \in 1..Len(councilModels) : IsObject(councilModels[k])}

\* the validation indicators panel p shows (lines 203-205)
Indicators(p) ==
    (IF PanelAt(p).isValidating THEN {"Pending"} ELSE {})
    \cup (IF PanelAt(p).isValid = Some(TRUE) THEN {"Valid"} ELSE {})
    \cup (IF PanelAt(p).isValid = Some(FALSE) THEN {"Invalid"} ELSE {})

\* C1: in every state (in which the dialog is rendered) canStart is true if and
\* only if at least one council slot is Valid, whatever its supports_reasoning,
\* and the chairman slot is Valid.
C1_CanStartIffValid ==
    ~crashed =>
        (canStart <=>
            /\ Cardinality({k \in CouncilSlots :
                               SlotStatus(councilModels[k]) = "Valid"}) >= 1
            /\ SlotStatus(chairmanModel) = "Valid")

\* C1 witness: the start is possible on the strength of a Valid council slot
\* that does not support reasoning.
C1_Witness ==
    /\ canStart
    /\ \A k \in CouncilSlots :
          SlotStatus(councilModels[k]) = "Valid"
             => ~councilModels[k].validationResult[1].supports_reasoning

\* C2: a configuration has been handed to onStart only in a state where
\* canStart is true, and the start action is enabled in no state where canStart
\* is false.
C2_StartOnlyWhenCanStart ==
    /\ config # None => canStart
    /\ (~crashed /\ ~canStart) => ~ENABLED handleStart

\* C2 witness: a configuration has been handed over.
C2_Witness == config # None /\ canStart

\* C3 (as claimed): when a validation call of a mounted panel throws, the panel
\* shows Invalid with the failure message and the slot no longer counts as Valid.
C3_FailureInvalidatesSlot ==
    [][\A c \in calls :
          (ValidateThrows(c) /\ c.mounted) =>
              /\ (PanelAt(c.panel).isValid = Some(FALSE))'
              /\ (PanelAt(c.panel).error = Some(FailedMessage))'
              /\ (SlotStatus(ModelAt(c.panel)) # "Valid")']_vars

\* a commit (Enter, or blur after a change) of panel p
Commits(p) ==
    \/ handleKeyDown(p)
    \/ handleBlur(p) /\ PanelAt(p).inputValue # ModelAt(p).id

\* C4 (as claimed): a commit of blank text issues no call and leaves the slot
\* Unvalidated, any prior validation result cleared.
C4_BlankClearsSlot ==
    [][\A p \in PanelKeys :
          (Commits(p) /\ IsBlank(PanelAt(p).inputValue)) =>
              /\ calls' = calls
              /\ (Indicators(p) = {})'
              /\ (SlotStatus(ModelAt(p)) = "Unvalidated")']_vars

\* C5 (as claimed): while a call of a mounted panel is outstanding the panel is
\* Pending and neither Valid nor Invalid; when the call returns the panel is
\* Valid or Invalid as the result says, with the returned error.
C5_PendingUntilCompletion ==
    [][/\ \A c \in calls' : c.mounted => (Indicators(c.panel) = {"Pending"})'
       /\ \A c \in calls :
            (ValidateReturns(c, Registry(c.id)) /\ c.mounted /\ ~crashed') =>
                /\ (PanelAt(c.panel).isValid = Some(Registry(c.id).valid))'
                /\ (PanelAt(c.panel).error = Registry(c.id).error)']_vars

\* c is the last outstanding call of its panel, issued while another was outstanding
LastOfOverlapping(c) ==
    /\ c.mounted
    /\ c.overlapped
    /\ \A d \in calls \ {c} : ~(d.panel = c.panel /\ d.mounted)

\* C6 (as claimed): when calls on one slot overlap, the slot's identifier and
\* validation after the last completion are those of the call that completed
\* last: its result if it returned, Invalid if it threw.
C6_LastCompletionWins ==
    [][\A c \in calls :
          LastOfOverlapping(c) =>
              /\ (ValidateReturns(c, Registry(c.id)) /\ ~crashed') =>
                    /\ (ModelAt(c.panel).id = c.id)'
                    /\ (ModelAt(c.panel).validationResult = Some(Registry(c.id)))'
              /\ ValidateThrows(c) =>
                    /\ (ModelAt(c.panel).id = c.id)'
                    /\ (SlotStatus(ModelAt(c.panel)) = "Invalid")']_vars

\* all slots, the chairman first
AllSlots ==
    {chairmanModel} \cup {councilModels[k] : k \in CouncilSlots}

\* C7 (as claimed): a returned result is applied to the slot that issued the
\* call and every other slot is left as it was.
C7_ResultToIssuer ==
    [][\A c \in calls :
          ValidateReturns(c, Registry(c.id)) =>
              \A m \in AllSlots' :
                  IF m.uid = c.issuer
                  THEN m.id = c.id /\ m.validationResult = Some(Registry(c.id))
                  ELSE m \in AllSlots]_vars

\* the slot produces an override according to the data model's invariant
Overridable(m) ==
    /\ SlotStatus(m) = "Valid"
    /\ m.validationResult[1].supports_reasoning
    /\ m.reasoningConfig # None /\ m.reasoningConfig[1].enabled
    /\ m.validationResult[1].reasoning_param_type
          \in {Some("effort"), Some("max_tokens"), Some("exclude")}

\* C8 (as claimed): in the configuration handed to the host, model_overrides has
\* an entry for X iff a slot with identifier X is Valid, supports reasoning, has
\* reasoning enabled and a parameter type of effort, max_tokens or exclude.
C8_OverridesIffOverridable ==
    config # None =>
        \A x \in {m.id : m \in AllSlots} \cup DOMAIN config[1].reasoning.model_overrides :
            (x \in DOMAIN config[1].reasoning.model_overrides)
                <=> \E m \in AllSlots : m.id = x /\ Overridable(m)

\* the reconciler has been applied to a slot holding a validation result
Reconciled == recon.pc = "done" /\ recon.model[1].validationResult # None

ReconResult == recon.model[1].validationResult[1]
ReconConfig == recon.model[1].reasoningConfig

\* C9: for every validation result with supports_reasoning false the
\* reconciler returns no override, whatever the reasoningConfig and the
\* parameter type.
C9_NoSupportNoOverride ==
    (Reconciled /\ ~ReconResult.supports_reasoning) => recon.override = None

\* C9 witness: the reconciler was applied to a Valid effort-type result that
\* does not support reasoning, with reasoning enabled and an effort chosen.
C9_Witness ==
    /\ Reconciled
    /\ ~ReconResult.supports_reasoning
    /\ ReconResult.valid
    /\ ReconResult.reasoning_param_type = Some("effort")
    /\ ReconConfig = Some(ReasoningConfig(TRUE, Some("low"), None))
    /\ recon.override = None

\* the effort the data model prescribes
ExpectedEffort(result, rc) ==
    IF rc.effort # None THEN rc.effort[1]
    ELSE IF result.effort_levels = None \/ result.effort_levels[1] = <<>>
         THEN "high"
         ELSE result.effort_levels[1][(Len(result.effort_levels[1]) \div 2) + 1]

\* C10: for a Valid, reasoning-supporting, enabled slot of parameter type
\* effort the override is {effort: e}, e the chosen effort when one is set,
\* else the effort level at index floor(length / 2), else "high" when there
\* are no effort levels.
C10_EffortOverride ==
    ( /\ Reconciled
      /\ ReconResult.valid
      /\ ReconResult.supports_reasoning
      /\ ReconConfig # None /\ ReconConfig[1].enabled
      /\ ReconResult.reasoning_param_type = Some("effort") )
    => recon.override = Some([effort |-> ExpectedEffort(ReconResult, ReconConfig[1])])

\* C10 witness: no effort chosen and levels [low, medium, high] give medium.
C10_Witness ==
    /\ Reconciled
    /\ ReconResult.valid /\ ReconResult.supports_reasoning
    /\ ReconResult.reasoning_param_type = Some("effort")
    /\ ReconResult.effort_levels = Some(<<"low", "medium", "high">>)
    /\ ReconConfig = Some(ReasoningConfig(TRUE, None, None))
    /\ recon.override = Some([effort |-> "medium"])

\* the slot given to the reconciler is Valid, supports reasoning, has reasoning
\* enabled and the parameter type ptype
ReconCase(ptype) ==
    /\ Reconciled
    /\ ReconResult.valid
    /\ ReconResult.supports_reasoning
    /\ ReconConfig # None /\ ReconConfig[1].enabled
    /\ ReconResult.reasoning_param_type = Some(ptype)

\* C11 (as claimed): for a Valid, reasoning-supporting, enabled slot of type
\* max_tokens whose result carries a range, the override is {max_tokens: n},
\* n the user's max_tokens whenever one is set (0 and negative values
\* included), else the default of the range.
C11_TokensAnyInteger ==
    (ReconCase("max_tokens") /\ ReconResult.max_tokens_range # None)
    => recon.override =
         Some([max_tokens |->
                 IF ReconConfig[1].max_tokens # None
                 THEN ReconConfig[1].max_tokens[1]
                 ELSE ReconResult.max_tokens_range[1].default])

\* the token budget the code sends: 0 counts as not set
ExpectedTokens(result, rc) ==
    IF rc.max_tokens # None /\ rc.max_tokens[1] # 0 THEN rc.max_tokens[1]
    ELSE IF result.max_tokens_range # None /\ result.max_tokens_range[1].default # 0
         THEN result.max_tokens_range[1].default
         ELSE FallbackTokens

\* C11 (amended): for a Valid, reasoning-supporting, enabled slot of type
\* max_tokens the override is {max_tokens: n}, n the user's max_tokens when
\* one is set and is not 0 (negative values included); when none is set or
\* it is 0, n is the default of the range, and 4096 when the result has no
\* range or the default is 0.
C11_TokensOverride ==
    ReconCase("max_tokens")
    => recon.override = Some([max_tokens |-> ExpectedTokens(ReconResult, ReconConfig[1])])

\* C11 witness: the user's max_tokens is 0 and the range {1024, 32000, 4096}
\* gives 4096.
C11_Witness ==
    /\ ReconCase("max_tokens")
    /\ ReconConfig[1].max_tokens = Some(0)
    /\ ReconResult.max_tokens_range = Some(DefaultRange)
    /\ recon.override = Some([max_tokens |-> DefaultRange.default])

\* C12: for a Valid, reasoning-supporting slot of parameter type exclude the
\* reconciler returns exactly {exclude: false} when reasoning is enabled and
\* nothing when it is not; for the type none, or any type outside effort,
\* max_tokens and exclude, it returns nothing.
C12_ExcludeAndNone ==
    (Reconciled /\ ReconResult.valid /\ ReconResult.supports_reasoning)
    => /\ ReconResult.reasoning_param_type = Some("exclude")
            => recon.override =
                 IF ReconConfig # None /\ ReconConfig[1].enabled
                 THEN Some([exclude |-> FALSE]) ELSE None
       /\ ReconResult.reasoning_param_type
             \notin {Some("effort"), Some("max_tokens"), Some("exclude")}
            => recon.override = None

\* C12 witness: an enabled exclude-type slot gives {exclude: false}.
C12_Witness ==
    /\ ReconCase("exclude")
    /\ recon.override = Some([exclude |-> FALSE])

\* the identifiers of the council list, position by position
SlotIds == [k \in 1..Len(councilModels) |-> councilModels[k].id]

NonEmptyId(id) == id # ""

\* C13: council_models of the constructed configuration is the sequence of
\* the council slots' identifiers in slot order with the empty identifiers
\* removed, nothing else dropped or added.
C13_CouncilModelsFiltered ==
    config # None =>
        config[1].council_models = SelectSeq(SlotIds, NonEmptyId)

\* C13 witness: a configuration was built from a council list holding a slot
\* with an empty identifier after slots with identifiers.
C13_Witness ==
    /\ config # None
    /\ \E k \in CouncilSlots : councilModels[k].id = ""
    /\ Len(config[1].council_models) >= 2
    /\ Len(config[1].council_models) < Len(councilModels)

\* the slots in the order handleStart processes them: the council list, then
\* the chairman
Processed == councilModels \o <<chairmanModel>>

\* the slot at position k of the processing order produces an override
Produces(k) ==
    IsObject(Processed[k]) /\ buildReasoningOverride(Processed[k]) # None

\* C14: when slots share an identifier and produce overrides,
\* model_overrides[identifier] is the override of the slot processed last
\* among them, the council slots in list order and the chairman last.
C14_LastOverrideWins ==
    config # None =>
        \A k \in 1..Len(Processed) :
            ( /\ Produces(k)
              /\ \A j \in (k + 1)..Len(Processed) :
                    ~(Produces(j) /\ Processed[j].id = Processed[k].id) )
            => config[1].reasoning.model_overrides[Processed[k].id]
                 = buildReasoningOverride(Processed[k])[1]

\* C14 witness: two council slots share an identifier and produce different
\* overrides, and the configuration holds the override of the later one.
C14_Witness ==
    /\ config # None
    /\ \E k, j \in 1..Len(councilModels) :
          /\ k < j
          /\ Produces(k) /\ Produces(j)
          /\ Processed[k].id = Processed[j].id
          /\ buildReasoningOverride(Processed[k]) # buildReasoningOverride(Processed[j])
          /\ config[1].reasoning.model_overrides[Processed[j].id]
               = buildReasoningOverride(Processed[j])[1]

\* the validation state panel p holds, the entered text apart
ValidationOf(p) == [PanelAt(p) EXCEPT !.inputValue = ""]

\* C15: a keystroke in the model input of a panel issues no validation call
\* and leaves the validation status of its slot, in the panel and in
\* ConversationSetup, and the state of every other slot unchanged.
C15_KeystrokeNoValidation ==
    [][\A p \in PanelKeys, text \in Texts :
          handleInputChange(p, text) =>
              /\ calls' = calls
              /\ councilModels' = councilModels
              /\ chairmanModel' = chairmanModel
              /\ ValidationOf(p)' = ValidationOf(p)
              /\ PanelKeys' = PanelKeys
              /\ \A q \in PanelKeys \ {p} : PanelAt(q)' = PanelAt(q)]_vars

\* C15 witness: the text of a validated panel was edited and not committed;
\* the panel is still Valid and no call is outstanding.
C15_Witness ==
    \E p \in PanelKeys :
        /\ focus = p
        /\ PanelAt(p).isValid = Some(TRUE)
        /\ PanelAt(p).inputValue # ModelAt(p).id
        /\ SlotStatus(ModelAt(p)) = "Valid"
        /\ calls = {}

\* the calls issued by a step
Issued == {c \in calls' : c.seq \notin {d.seq : d \in calls}}

\* C16: every validation call is issued by one commit of a panel (Enter, or
\* the loss of focus with a text that differs from the slot's identifier)
\* with non-blank text, and is a call for that text; a step issues at most
\* one call, and the completion of a call, failed or not, issues none.  The
\* calls issued in a run are therefore never more than its commits.
C16_CallsOnlyOnCommit ==
    [][/\ Cardinality(Issued) <= 1
       /\ \A c \in Issued :
             /\ Commits(c.panel)
             /\ ~IsBlank(PanelAt(c.panel).inputValue)
             /\ c.id = PanelAt(c.panel).inputValue
       /\ \A c \in calls :
             (ValidateReturns(c, Registry(c.id)) \/ ValidateThrows(c))
                => Issued = {}]_vars

\* C16 witness: a call was issued and has failed, and no call is outstanding.
C16_Witness ==
    \E p \in PanelKeys :
        /\ PanelAt(p).error = Some(FailedMessage)
        /\ ~PanelAt(p).isValidating
        /\ calls = {}

\* the slot with identity uid is shown with the validating indicator
PendingSlot(uid) ==
    \E p \in PanelKeys : ModelAt(p).uid = uid /\ PanelAt(p).isValidating

\* the step is a user action on panel p or on the slot it renders
ActsOn(p) ==
    \/ \E text \in Texts : handleInputChange(p, text)
    \/ handleBlur(p)
    \/ handleKeyDown(p)
    \/ handleRemoveModel(p)
    \/ handleReasoningToggle(p)
    \/ \E effort \in {"low", "medium", "high"} : handleEffortChange(p, effort)
    \/ \E value \in TokenTexts : handleMaxTokensChange(p, value)

\* c is the only outstanding call of its panel and of its slot
SoleCall(c) ==
    /\ c.mounted
    /\ ~c.overlapped
    /\ ModelAt(c.panel).uid = c.issuer
    /\ \A d \in calls \ {c} : d.panel # c.panel /\ d.issuer # c.issuer

\* C17 (as claimed): while the only call of a slot stays unresolved and the
\* user does nothing on that slot, the slot stays Pending; meanwhile every
\* outstanding call, of this or of another slot, can complete.
C17_PendingWhileUnresolved ==
    [][/\ \A c \in calls :
             ( /\ SoleCall(c)
               /\ PendingSlot(c.issuer)
               /\ c.seq \in {d.seq : d \in calls'}
               /\ ~ActsOn(c.panel)
               /\ ~crashed' )
             => PendingSlot(c.issuer)'
       /\ Live => \A d \in calls :
             ENABLED ValidateReturns(d, Registry(d.id)) /\ ENABLED ValidateThrows(d)]_vars

\* the slot is as addCouncilSlot creates it
IsAddedSlot(m) ==
    /\ IsObject(m)
    /\ m.id = ""
    /\ m.reasoningConfig = Some([enabled |-> TRUE, effort |-> Some("medium"),
                                 max_tokens |-> None])
    /\ SlotStatus(m) = "Unvalidated"

\* C18: adding a council slot appends exactly one slot at the end of the
\* council list, with empty identifier, reasoning config {enabled: true,
\* effort: medium} and no validation, and leaves every existing council slot,
\* the chairman slot and their panels unchanged.
C18_AddAppendsDefaultSlot ==
    [][handleAddModel =>
          /\ Len(councilModels') = Len(councilModels) + 1
          /\ IsAddedSlot(councilModels'[Len(councilModels')])
          /\ councilModels'[Len(councilModels')].uid
                \notin {m.uid : m \in AllSlots}
          /\ \A k \in CouncilSlots : councilModels'[k] = councilModels[k]
          /\ chairmanModel' = chairmanModel
          /\ \A p \in PanelKeys : PanelAt(p)' = PanelAt(p)
          /\ calls' = calls]_vars

\* C18 witness: a slot was added after a slot of the list had been validated.
C18_Witness ==
    /\ IsAddedSlot(councilModels[Len(councilModels)])
    /\ councilPanels[Len(councilModels)] = NewPanel("")
    /\ \E k \in CouncilSlots : SlotStatus(councilModels[k]) = "Valid"

\* C19: the council list is never empty; removing is offered only while the
\* list has more than one slot, and removing at position k leaves exactly
\* the other slots, in their order and with their contents.
C19_RemoveKeepsListNonEmpty ==
    /\ [](Len(councilModels) >= 1 /\ (~crashed => CouncilSlots # {}))
    /\ [](Len(councilModels) <= 1
             => \A k \in PanelKeys : ~ENABLED handleRemoveModel(k))
    /\ [][\A k \in PanelKeys :
            handleRemoveModel(k) =>
                /\ Len(councilModels) > 1
                /\ councilModels' =
                     SelectSeq(councilModels,
                               LAMBDA m : IsObject(m) /\ m.uid # councilModels[k].uid)
                /\ chairmanModel' = chairmanModel]_vars

\* C19 witness: the first two slots were removed; the third is the whole list
\* and no removal is offered.
C19_Witness ==
    /\ Len(councilModels) = 1
    /\ councilModels[1].id = OPUS
    /\ ~showRemove

\* the step sets the reasoning config of the slot of panel p to rc
SetsReasoningConfig(p, rc) ==
    /\ ModelAt(p)'.reasoningConfig = Some(rc)
    /\ ModelAt(p)'.id = ModelAt(p).id
    /\ ModelAt(p)'.validationResult = ModelAt(p).validationResult
    /\ ModelAt(p)'.uid = ModelAt(p).uid
    /\ Len(councilModels') = Len(councilModels)
    /\ \A q \in PanelKeys \ {p} : ModelAt(q)' = ModelAt(q)
    /\ \A q \in PanelKeys : PanelAt(q)' = PanelAt(q)
    /\ calls' = calls

\* C20: setting the reasoning config of a slot (by the toggle, the effort
\* select or the token input of its panel) replaces the slot's
\* reasoningConfig by the given value and leaves the slot's identifier and
\* validation result, and every other slot, unchanged.
C20_ReasoningChangeFrame ==
    [][\A p \in PanelKeys :
          /\ (handleReasoningToggle(p) /\ ConfigAt(p) # None)
                => SetsReasoningConfig(p,
                     [ConfigAt(p)[1] EXCEPT !.enabled = ~ConfigAt(p)[1].enabled])
          /\ \A effort \in {"low", "medium", "high"} :
                handleEffortChange(p, effort)
                => SetsReasoningConfig(p,
                     [ConfigAt(p)[1] EXCEPT !.effort = Some(effort)])
          /\ \A value \in {"0", "2048"} :
                handleMaxTokensChange(p, value)
                => SetsReasoningConfig(p,
                     [ConfigAt(p)[1] EXCEPT !.max_tokens = ParseInt(value)])]_vars

\* C20 witness: reasoning was switched off on a slot that is still Valid.
C20_Witness ==
    \E p \in PanelKeys :
        /\ ConfigAt(p) # None
        /\ ~ConfigAt(p)[1].enabled
        /\ SlotStatus(ModelAt(p)) = "Valid"
        /\ PanelAt(p).isValid = Some(TRUE)

\* C21: the reconciler is deterministic and free of side effects: building
\* the configuration leaves every slot's identifier, validation result and
\* reasoningConfig (and the panels) as they were, and applying the reconciler
\* and the construction again to the slots as they are afterwards yields the
\* output that was handed over.
C21_ReconcilerPure ==
    [][handleStart =>
          /\ councilModels' = councilModels
          /\ chairmanModel' = chairmanModel
          /\ councilPanels' = councilPanels
          /\ chairmanPanel' = chairmanPanel
          /\ \A k \in 1..Len(councilModels) :
                buildReasoningOverride(councilModels[k])'
                    = buildReasoningOverride(councilModels[k])
          /\ buildReasoningOverride(chairmanModel)'
                = buildReasoningOverride(chairmanModel)
          /\ config' = Some(BuildConfig)
          /\ BuildConfig' = BuildConfig]_vars

\* C21 witness: a configuration with overrides was handed over, and building
\* it again from the slots gives the same configuration.
C21_Witness ==
    /\ config # None
    /\ DOMAIN config[1].reasoning.model_overrides # {}
    /\ config = Some(BuildConfig)
    /\ \E k \in CouncilSlots : buildReasoningOverride(councilModels[k]) # None

\* the validation status and error message shown for the slot with identity uid
ShownFor(uid) ==
    LET p == CHOOSE q \in PanelKeys : ModelAt(q).uid = uid
    IN  [isValid |-> PanelAt(p).isValid, error |-> PanelAt(p).error]

\* C22 (as claimed): the status and the error message shown for a council
\* slot are those of the slot's own validation, also after another council
\* slot was removed: a removal leaves what is shown for every remaining slot
\* as it was.
C22_FailuresLocalToSlot ==
    [][\A k \in PanelKeys :
          (handleRemoveModel(k) /\ ~crashed') =>
              \A uid \in {councilModels[q].uid : q \in CouncilSlots \ {k}} :
                  ShownFor(uid)' = ShownFor(uid)]_vars

\* the texts of the council inputs, position by position
EnteredTexts ==
    [k \in 1..Len(councilModels) |->
        IF councilPanels[k].exists THEN councilPanels[k].inputValue ELSE ""]

\* C23 (as claimed): in the constructed configuration chairman_model and the
\* entries of council_models are the identifier texts most recently entered
\* for the slots, validated or not.
C23_ConfigHasEnteredTexts ==
    config # None =>
        /\ config[1].chairman_model = chairmanPanel.inputValue
        /\ config[1].council_models = SelectSeq(EnteredTexts, NonEmptyId)

\* panel p was cleared by a blank commit and no non-blank commit followed:
\* it shows no indicator although a call of its own is still outstanding
ClearedByBlank(p) ==
    /\ PanelExists(p)
    /\ Indicators(p) = {}
    /\ \E c \in calls : c.panel = p /\ c.mounted

\* C24 (as claimed): once a blank commit has cleared a slot, the completion
\* of a call issued earlier on the slot leaves it Unvalidated: the panel
\* shows no indicator and the slot is not given the call's result.
C24_BlankClearSurvivesStaleCall ==
    [][\A c \in calls :
          ( /\ c.mounted
            /\ ClearedByBlank(c.panel)
            /\ (ValidateReturns(c, Registry(c.id)) \/ ValidateThrows(c))
            /\ ~crashed' )
          => /\ (Indicators(c.panel) = {})'
             /\ ModelAt(c.panel)' = ModelAt(c.panel)]_vars

\* the slot holds no result, or the service's response for its identifier
ResultMatchesId(m) ==
    m.validationResult = None \/ m.validationResult = Some(Registry(m.id))

\* C25: in every state every slot, council or chairman, holds no validation
\* result or the response the Validation Service returned for the slot's
\* current identifier; a step that changes the identifier of a slot gives it
\* the result for the new identifier in the same step.
C25_ResultBelongsToId ==
    /\ [](\A m \in AllSlots : ResultMatchesId(m))
    /\ [][\A m \in AllSlots : \A n \in AllSlots' :
             (n.uid = m.uid /\ n.id # m.id)
                => n.validationResult = Some(Registry(n.id))]_vars

\* C25 witness: a council slot was given a new identifier and holds the
\* response for it.
C25_Witness ==
    \E k \in CouncilSlots :
        /\ councilModels[k].id \in {LLAMA, GROK, UNKNOWN}
        /\ councilModels[k].validationResult = Some(Registry(councilModels[k].id))

\* the Validation Service has returned valid = true for the identifier x
ReturnedValid(x) ==
    \E m \in AllSlots :
        /\ m.id = x
        /\ m.validationResult = Some(Registry(x))
        /\ Registry(x).valid

\* C26: in every configuration handed over, chairman_model is an identifier
\* for which the Validation Service returned valid = true, and so is at
\* least one entry of council_models.
C26_ConfigHasValidatedIds ==
    config # None =>
        /\ ReturnedValid(config[1].chairman_model)
        /\ \E i \in 1..Len(config[1].council_models) :
              ReturnedValid(config[1].council_models[i])

\* C26 witness: a configuration was handed over in which one entry of
\* council_models is validated and another is not.
C26_Witness ==
    /\ config # None
    /\ \E i, j \in 1..Len(config[1].council_models) :
          /\ ReturnedValid(config[1].council_models[i])
          /\ ~ReturnedValid(config[1].council_models[j])

\* C27 (as claimed): every entry of council_models in a configuration handed
\* over is the identifier of a council slot that is Valid.
C27_OnlyValidSlotsSent ==
    config # None =>
        \A i \in 1..Len(config[1].council_models) :
            \E k \in CouncilSlots :
                /\ councilModels[k].id = config[1].council_models[i]
                /\ SlotStatus(councilModels[k]) = "Valid"

\* C28 (as claimed): the council list changes its length only by an added
\* slot (+1) and a removed slot (-1), every council slot has a
\* reasoningConfig, and the completion of a validation call creates no slot.
C28_LengthOnlyByAddRemove ==
    /\ [](\A k \in CouncilSlots : councilModels[k].reasoningConfig # None)
    /\ [][Len(councilModels') # Len(councilModels) =>
             \/ handleAddModel /\ Len(councilModels') = Len(councilModels) + 1
             \/ \E k \in PanelKeys :
                   handleRemoveModel(k) /\ Len(councilModels') = Len(councilModels) - 1]_vars

\* the effort levels the slot's validation result lists
LevelsOf(m) ==
    IF m.validationResult = None \/ m.validationResult[1].effort_levels = None
    THEN {}
    ELSE {m.validationResult[1].effort_levels[1][i] :
            i \in 1..Len(m.validationResult[1].effort_levels[1])}

\* C29 (as claimed): for every slot of parameter type effort with effort
\* levels, the effort placed in model_overrides for its identifier is one of
\* the slot's effort levels.
C29_EffortAmongLevels ==
    config # None =>
        \A m \in AllSlots :
            ( /\ m.id \in DOMAIN config[1].reasoning.model_overrides
              /\ m.validationResult # None
              /\ m.validationResult[1].reasoning_param_type = Some("effort")
              /\ LevelsOf(m) # {} )
            => config[1].reasoning.model_overrides[m.id].effort \in LevelsOf(m)

\* C30: in every state a slot with an empty (or blank) identifier holds no
\* validation result and the chairman's identifier is not empty; no
\* configuration handed over has an empty chairman_model or an entry of
\* model_overrides under the empty string.
C30_NoResultForEmptyId ==
    /\ \A m \in AllSlots : IsBlank(m.id) => (m.id = "" /\ m.validationResult = None)
    /\ ~IsBlank(chairmanModel.id)
    /\ config # None =>
          /\ config[1].chairman_model # ""
          /\ "" \notin DOMAIN config[1].reasoning.model_overrides

\* C30 witness: a configuration with overrides was built while the council
\* list held an added slot that is still empty.
C30_Witness ==
    /\ config # None
    /\ DOMAIN config[1].reasoning.model_overrides # {}
    /\ \E k \in CouncilSlots :
          councilModels[k].id = "" /\ councilModels[k].validationResult = None

\* The identifiers listed in a configuration's council_models.
SentCouncil(cfg) == {cfg.council_models[k] : k \in DOMAIN cfg.council_models}

\* C31: in every configuration handed to onStart, every key of
\* model_overrides is an entry of council_models or equals chairman_model;
\* no override is sent for a model that is not part of the council.
C31_OverrideKeysInCouncil ==
    config # None =>
        \A id \in DOMAIN config[1].reasoning.model_overrides :
            id \in SentCouncil(config[1]) \/ id = config[1].chairman_model

\* C31 witness: a configuration was handed over whose model_overrides holds
\* a key that is a council identifier other than the chairman's, while the
\* filter of council_models dropped a slot (fewer entries than slots).
C31_Witness ==
    /\ config # None
    /\ \E id \in DOMAIN config[1].reasoning.model_overrides :
          id \in SentCouncil(config[1]) /\ id # config[1].chairman_model
    /\ Len(config[1].council_models) < Len(councilModels)

====
